---- MODULE Spec2Model ----
(***************************************************************************)
(* Shape, value and control-flow model of depth_anything/dpt.py:           *)
(* DPTHead (the DPT decoder head) and DPT_DINOv2 (backbone + head wrapper).*)
(*                                                                         *)
(* A tensor is modelled by its shape [n, c, h, w]; the depth map also      *)
(* carries two sample values (pixel 0 and pixel 1 of one row) as exact     *)
(* fractions num/den.  One forward pass is a sequence of steps, one per    *)
(* statement group of the two forward methods; an exception ends the pass  *)
(* with result.ok = FALSE and the exception's type.                        *)
(***************************************************************************)
EXTENDS Integers, Sequences, FiniteSets, TLC

VARIABLES
    self,      \* the module object: its configuration and weights
    pc,        \* position in forward: "idle", a step's name, or "done"
    x,         \* the image given to DPT_DINOv2.forward
    features,  \* out_features: the feature entries given to DPTHead.forward
    patch_h, patch_w,
    i,         \* iterations of the loop over out_features completed
    out,       \* the list of resampled maps
    layer_rn,  \* layer_1_rn .. layer_4_rn
    path_4, path_3, path_2, path_1,
    depth,     \* the head's out / the wrapper's depth: shape and samples
    resized,   \* whether the wrapper's F.interpolate ran
    trace,     \* the modules and functions invoked so far, in order
    result,    \* what the call returned or raised
    saved,     \* an earlier call of the caller's choice: object, arguments, result
    again      \* whether the current call started after a call had been kept

vars == <<self, pc, x, features, patch_h, patch_w, i, out, layer_rn,
          path_4, path_3, path_2, path_1, depth, resized, trace, result, saved,
          again>>

----------------------------------------------------------------------------
(* Bounds of the model *)

MaxPatch == 3
MaxDepthBound == 2
MaxFeat == 5
SigScale == 4

(* Program constants *)

PatchSize == 14
HeadFeatures2 == 32

----------------------------------------------------------------------------
(* Shapes *)

NoShape == [n |-> 0, c |-> 0, h |-> 0, w |-> 0]

Shape(n, c, h, w) == [n |-> n, c |-> c, h |-> h, w |-> w]

SameSize(a, b) == a.h = b.h /\ a.w = b.w

Size(a) == <<a.h, a.w>>

NoDepth == [shape |-> NoShape, num |-> <<0, 0>>, den |-> 1]

NoResult == [ok |-> FALSE, err |-> "none", dims |-> <<>>, num |-> <<0, 0>>, den |-> 1]

Raise(kind) == [ok |-> FALSE, err |-> kind, dims |-> <<>>, num |-> <<0, 0>>, den |-> 1]

Max(a, b) == IF a >= b THEN a ELSE b

Min(a, b) == IF a <= b THEN a ELSE b

----------------------------------------------------------------------------
(* _SETTINGS: encoder -> [features, out_channels, intermediate layers] *)

AllEncoders == {"vits", "vitb", "vitl", "v2_vits", "v2_vitb", "v2_vitl"}

DinoEncoder(encoder) ==
    CASE encoder = "v2_vits" -> "vits"
      [] encoder = "v2_vitb" -> "vitb"
      [] encoder = "v2_vitl" -> "vitl"
      [] OTHER -> encoder

SettingsFeatures(encoder) ==
    CASE DinoEncoder(encoder) = "vits" -> 64
      [] DinoEncoder(encoder) = "vitb" -> 128
      [] DinoEncoder(encoder) = "vitl" -> 256

SettingsOutChannels(encoder) ==
    CASE DinoEncoder(encoder) = "vits" -> <<48, 96, 192, 384>>
      [] DinoEncoder(encoder) = "vitb" -> <<96, 192, 384, 768>>
      [] DinoEncoder(encoder) = "vitl" -> <<256, 512, 1024, 1024>>

(* number of feature entries get_intermediate_layers returns: a list of 4
   indices for the v2 variants, the count 4 (last 4 blocks) for the others *)
SettingsLayerCount(encoder) ==
    CASE encoder \in {"v2_vits", "v2_vitb", "v2_vitl"} -> Len(<<2, 5, 8, 11>>)
      [] OTHER -> 4

(* self.pretrained.embed_dim of the DINOv2 backbone *)
EmbedDim(encoder) ==
    CASE DinoEncoder(encoder) = "vits" -> 384
      [] DinoEncoder(encoder) = "vitb" -> 768
      [] DinoEncoder(encoder) = "vitl" -> 1024

----------------------------------------------------------------------------
(* Layer arithmetic of the numeric runtime, as used by the modules below *)

(* nn.Conv2d(in_ch, out_ch, kernel_size=k, stride=s, padding=p) on shape a:
   the channel count must equal in_ch *)
Conv2d(a, in_ch, out_ch, k, s, p) ==
    IF a.c # in_ch \/ a.h + 2 * p < k \/ a.w + 2 * p < k
    THEN NoShape
    ELSE Shape(a.n, out_ch, (a.h + 2 * p - k) \div s + 1, (a.w + 2 * p - k) \div s + 1)

(* nn.ConvTranspose2d(in_ch, out_ch, kernel_size=k, stride=s, padding=p) *)
ConvTranspose2d(a, in_ch, out_ch, k, s, p) ==
    IF a.c # in_ch
    THEN NoShape
    ELSE Shape(a.n, out_ch, (a.h - 1) * s - 2 * p + k, (a.w - 1) * s - 2 * p + k)

(* F.interpolate(a, size=(h, w)) keeps batch and channels *)
Interpolate(a, h, w) == Shape(a.n, a.c, h, w)

----------------------------------------------------------------------------
(* DPTHead.__init__: the modules a head owns *)

(* a module object: DPT_DINOv2 (whose depth_head is DPTHead(1, embed_dim,
   features, ...)) or a DPTHead constructed on its own.  weight stands for the
   learned parameters, fixed once loaded. *)
Module(kind, encoder, nclass, use_clstoken, metric_depth, max_depth, weight) ==
    [kind |-> kind, encoder |-> encoder, nclass |-> nclass,
     in_channels |-> EmbedDim(encoder),
     features |-> SettingsFeatures(encoder),
     out_channels |-> SettingsOutChannels(encoder),
     use_clstoken |-> use_clstoken, metric_depth |-> metric_depth,
     max_depth |-> max_depth, weight |-> weight]

NoModule == Module("none", "vits", 1, FALSE, FALSE, 1, 1)

(* len(self.projects) = len(out_channels); readout_projects has as many *)
NumProjects(s) == Len(s.out_channels)

(* if nclass > 1: scratch.output_conv, else scratch.output_conv1/output_conv2 *)
HasOutputConv(s) == s.nclass > 1

HasOutputConv1(s) == ~(s.nclass > 1)

(* self.projects[i], k = i + 1: 1x1 convolution in_channels -> out_channels[i] *)
Projects(s, k, a) == Conv2d(a, s.in_channels, s.out_channels[k], 1, 1, 0)

(* resize_layers with the last convolution's padding left at 0 *)
ResizeLayersNoPadding(s, k, a) ==
    CASE k = 1 -> ConvTranspose2d(a, s.out_channels[1], s.out_channels[1], 4, 4, 0)
      [] k = 2 -> ConvTranspose2d(a, s.out_channels[2], s.out_channels[2], 2, 2, 0)
      [] k = 3 -> a
      [] k = 4 -> Conv2d(a, s.out_channels[4], s.out_channels[4], 3, 2, 0)

(* self.resize_layers[i]; k = i + 1 is 1-based here *)
ResizeLayers(s, k, a) ==
    CASE k = 1 -> ConvTranspose2d(a, s.out_channels[1], s.out_channels[1], 4, 4, 0)
      [] k = 2 -> ConvTranspose2d(a, s.out_channels[2], s.out_channels[2], 2, 2, 0)
      [] k = 3 -> a
      [] k = 4 -> Conv2d(a, s.out_channels[4], s.out_channels[4], 3, 2, 1)

(* a readout that leaves the concatenated width 2 * in_channels unprojected *)
ReadoutUnprojected(s, dim) == dim + dim

(* readout_projects[i]: Linear(2 * in_channels, in_channels) + GELU applied to
   cat((x, readout), -1); gives the width of the last axis, 0 on a mismatch *)
ReadoutProjects(s, dim) ==
    IF dim + dim = 2 * s.in_channels THEN s.in_channels ELSE 0

(* reshape((x.shape[0], x.shape[-1], patch_h, -1)): the width is inferred, so
   any token count divisible by patch_h is accepted *)
ReshapeInferred(n, tokens, dim, ph, pw) == tokens % ph = 0

(* x.permute(0, 2, 1).reshape((x.shape[0], x.shape[-1], patch_h, patch_w)):
   defined only when the element counts agree *)
ReshapeOk(n, tokens, dim, ph, pw) == n * dim * tokens = n * dim * ph * pw

(* one iteration of the loop over out_features (k = i + 1 is 1-based): the
   exception it raises ("" when none), the map it appends and the modules it
   invokes *)
LoopBody(s, entry, k, ph, pw) ==
    LET dim == IF s.use_clstoken THEN ReadoutProjects(s, entry.dim) ELSE entry.dim
        grid == Shape(entry.n, dim, ph, pw)
        proj == Projects(s, k, grid)
        res == ResizeLayers(s, k, proj)
        mods == IF s.use_clstoken THEN <<"readout_projects">> ELSE <<>>
    IN  IF s.use_clstoken /\ k > NumProjects(s)
        THEN [err |-> "IndexError", shape |-> NoShape, mods |-> <<>>]
        ELSE IF dim = 0
        THEN [err |-> "RuntimeError", shape |-> NoShape, mods |-> <<>>]
        ELSE IF ~ReshapeOk(entry.n, entry.tokens, dim, ph, pw)
        THEN [err |-> "RuntimeError", shape |-> NoShape, mods |-> mods]
        ELSE IF k > NumProjects(s)
        THEN [err |-> "IndexError", shape |-> NoShape, mods |-> mods]
        ELSE IF proj = NoShape \/ res = NoShape
        THEN [err |-> "RuntimeError", shape |-> NoShape, mods |-> mods]
        ELSE [err |-> "", shape |-> res, mods |-> mods \o <<"projects", "resize_layers">>]

(* the list kept from the previous forward pass instead of a new one *)
StaleOut == out

(* out = [] at the start of DPTHead.forward *)
EmptyOut == <<>>

(* layer_1, layer_2, layer_3, layer_4 = out *)
UnpackOk(o) == Len(o) = 4

----------------------------------------------------------------------------
(* blocks.py: _make_scratch and FeatureFusionBlock *)

(* scratch.layer{k}_rn: 3x3 convolution out_channels[k - 1] -> features, stride 1,
   padding 1 *)
LayerRn(s, k, a) == Conv2d(a, s.out_channels[k], s.features, 3, 1, 1)

(* elementwise combine of accumulator and lateral map (broadcasting axes of
   length 1, as the runtime's add does) *)
Broadcastable(p, q) == p = q \/ p = 1 \/ q = 1

SkipAdd(a, b) ==
    IF Broadcastable(a.n, b.n) /\ Broadcastable(a.c, b.c)
       /\ Broadcastable(a.h, b.h) /\ Broadcastable(a.w, b.w)
    THEN Shape(Max(a.n, b.n), Max(a.c, b.c), Max(a.h, b.h), Max(a.w, b.w))
    ELSE NoShape

(* FeatureFusionBlock.forward on xs with size: residual conv, elementwise combine when
   a second input is given, upsample to size (or by 2 when size is None, written
   <<>>), 1x1 out convolution *)
FeatureFusionBlock(xs, size) ==
    LET acc == IF Len(xs) = 2 THEN SkipAdd(xs[1], xs[2]) ELSE xs[1]
    IN  IF acc = NoShape THEN NoShape
        ELSE IF size = <<>> THEN Interpolate(acc, 2 * acc.h, 2 * acc.w)
        ELSE Interpolate(acc, size[1], size[2])

----------------------------------------------------------------------------
(* DPTHead.forward: the fusion chain's size arguments and the output head *)

(* refinenet4(layer_4_rn) without a size: the block upsamples by 2 *)
Refinenet4NoSize(rn) == <<>>

(* refinenet4(layer_4_rn, size=layer_3_rn.shape[2:]) *)
Refinenet4Size(rn) == Size(rn[3])

(* refinenet3(path_4, layer_3_rn, size=layer_2_rn.shape[2:]) *)
Refinenet3Size(rn) == Size(rn[2])

(* refinenet2(path_3, layer_2_rn, size=layer_1_rn.shape[2:]) *)
Refinenet2Size(rn) == Size(rn[1])

(* refinenet1(path_2, layer_1_rn): no size *)
Refinenet1Size(rn) == <<>>

(* scratch.output_conv1: 3x3 convolution features -> features // 2 *)
OutputConv1(s, a) == Conv2d(a, s.features, s.features \div 2, 3, 1, 1)

(* F.interpolate(out, (int(patch_h * 14), int(patch_w * 14)), bilinear) *)
HeadInterpolate(a, ph, pw) == Interpolate(a, ph * PatchSize, pw * PatchSize)

(* scratch.output_conv2: 3x3 conv -> ReLU -> 1x1 conv to 1 channel -> act_func *)
OutputConv2(s, a) ==
    Conv2d(Conv2d(a, s.features \div 2, HeadFeatures2, 3, 1, 1), HeadFeatures2, 1, 1, 1, 0)

----------------------------------------------------------------------------
(* Values.  A value is an integer numerator over the tensor's denominator. *)

Relu(v) == Max(0, v)

(* nn.Sigmoid on an integer pre-activation, in units of 1/SigScale: monotone,
   1/2 at 0, saturating at 0 and 1 as it does in floating point *)
Sigmoid(v) ==
    IF v <= -2 THEN 0
    ELSE IF v >= 2 THEN SigScale
    ELSE ((v + 2) * SigScale) \div 4

(* the two activations chosen the wrong way round *)
ActFuncSwapped(metric_depth, v) == IF metric_depth THEN Relu(v) * SigScale ELSE Sigmoid(v)

(* act_func = nn.Sigmoid() if metric_depth else nn.ReLU(True) *)
ActFunc(metric_depth, v) == IF metric_depth THEN Sigmoid(v) ELSE Relu(v) * SigScale

SumVal(feats, k) ==
    LET f[j \in 0..Len(feats)] == IF j = 0 THEN 0 ELSE f[j - 1] + feats[j].val[k]
    IN  f[Len(feats)]

(* the pre-activation of sample pixel k: the learned layers stand as one linear
   map (weight times the mean) of the feature entries' sample values *)
Logit(s, feats, k) == s.weight * (SumVal(feats, k) \div Len(feats))

(* the head's output samples *)
HeadValues(s, feats) ==
    [num |-> <<ActFunc(s.metric_depth, Logit(s, feats, 1)),
               ActFunc(s.metric_depth, Logit(s, feats, 2))>>,
     den |-> SigScale]

(* F.interpolate(depth, size=(h, w), mode="bilinear", align_corners=True) on the
   samples: pixel 0 is a corner and keeps its value, pixel 1 of the output lies
   at source position (in_w - 1) / (out_w - 1) between source pixels 0 and 1 *)
Bilinear(d, in_w, out_w) ==
    LET D == out_w - 1
        t == Min(in_w - 1, D)
    IN  IF D <= 0 THEN d
        ELSE [num |-> <<d.num[1] * D, d.num[1] * (D - t) + d.num[2] * t>>,
              den |-> d.den * D]

----------------------------------------------------------------------------
(* DPT_DINOv2.forward: the wrapper's steps *)

(* self.pretrained.get_intermediate_layers(x, intermediate_layer_idx,
   return_class_token=True): one (patch tokens, class token) entry per selected
   layer, each with (h div 14) * (w div 14) patch tokens of width embed_dim *)
GetIntermediateLayers(s, img) ==
    [j \in 1..SettingsLayerCount(s.encoder) |->
        [n |-> img.n, tokens |-> (img.h \div PatchSize) * (img.w \div PatchSize),
         dim |-> EmbedDim(s.encoder), val |-> img.pix]]

(* patch_h, patch_w = h // 14, w // 14 *)
PatchGrid(len) == len \div PatchSize

(* the size test with "and" in place of "or" *)
NeedsResizeBoth(h, w, a) == h # a.h /\ w # a.w

(* if h != depth.shape[2] or w != depth.shape[3] *)
NeedsResize(h, w, a) == h # a.h \/ w # a.w

(* torch.clamp(depth, max=self.max_depth) in place of the multiplication *)
ClampByMaxDepth(v, max_depth) == Min(v, max_depth)

(* depth = depth * self.max_depth *)
ScaleByMaxDepth(v, max_depth) == v * max_depth

(* depth.squeeze() in place of squeeze(1): drops every axis of length 1 *)
SqueezeAll(a) == SelectSeq(<<a.n, a.c, a.h, a.w>>, LAMBDA len : len # 1)

(* depth.squeeze(1): drops axis 1 when its length is 1 *)
Squeeze1(a) == IF a.c = 1 THEN <<a.n, a.h, a.w>> ELSE <<a.n, a.c, a.h, a.w>>

----------------------------------------------------------------------------
(* Objects and arguments *)

Batches == {1, 2}

PixVals == {-1, 0, 1}

PixPairs == {p \in PixVals \X PixVals : p[1] <= p[2]}

Weights == {1, 2}

Encoders == {"vits", "v2_vitl"}

MaxDepths == 1..MaxDepthBound

(* image sides: multiples of the patch size, and sides 5 past a multiple *)
Lengths == {PatchSize * p + r : p \in 1..MaxPatch, r \in {0, 5}}

NoImage == [n |-> 0, c |-> 0, h |-> 0, w |-> 0, pix |-> <<0, 0>>]

Images == [n : Batches, c : {3}, h : Lengths, w : Lengths, pix : PixPairs]

(* DPT_DINOv2(encoder, use_clstoken, metric_depth, max_depth) *)
Wrappers ==
    {Module("DPT_DINOv2", e, 1, cls, m, d, wt) :
        e \in Encoders, cls \in BOOLEAN, m \in BOOLEAN, d \in MaxDepths, wt \in Weights}

(* DPTHead(nclass, in_channels, features, out_channels, use_clstoken, metric_depth) *)
Heads ==
    {Module("DPTHead", "vits", nc, cls, m, 1, 1) :
        nc \in {1, 2}, cls \in BOOLEAN, m \in BOOLEAN}

(* a feature entry: patch tokens of shape (n, tokens, dim) with a class token *)
Entry(n, tokens, dim, val) == [n |-> n, tokens |-> tokens, dim |-> dim, val |-> val]

(* feature lists of len entries for an n x ph x pw grid: every entry with
   ph * pw patch tokens, except entry bad (when 1 <= bad <= len), which has one
   token more *)
FeatureList(len, bad, n, ph, pw, dim, val) ==
    [j \in 1..len |-> Entry(n, IF j = bad THEN ph * pw + 1 ELSE ph * pw, dim, val)]

(* arguments of a direct DPTHead.forward(out_features, patch_h, patch_w) *)
HeadArgs(s) ==
    {[features |-> FeatureList(len, bad, n, ph, pw, s.in_channels, val),
      patch_h |-> ph, patch_w |-> pw] :
        len \in 0..MaxFeat, bad \in 0..MaxFeat, n \in Batches,
        ph \in 1..MaxPatch, pw \in 1..MaxPatch, val \in {<<-1, 1>>, <<0, 2>>}}

Call == [self |-> self, x |-> x, features |-> features,
         patch_h |-> patch_h, patch_w |-> patch_w, result |-> result]

NoSaved == [self |-> NoModule, x |-> NoImage, features |-> <<>>,
            patch_h |-> 0, patch_w |-> 0, result |-> NoResult]

----------------------------------------------------------------------------
(* Steps *)

Locals == <<i, out, layer_rn, path_4, path_3, path_2, path_1, depth, resized>>

Args == <<x, features, patch_h, patch_w>>

Fresh ==
    /\ i' = 0
    /\ layer_rn' = <<>>
    /\ path_4' = NoShape /\ path_3' = NoShape /\ path_2' = NoShape /\ path_1' = NoShape
    /\ depth' = NoDepth
    /\ resized' = FALSE
    /\ result' = NoResult

(* an exception propagates to the caller *)
Fail(kind) ==
    /\ pc' = "done"
    /\ result' = Raise(kind)

(* __init__: a new object *)
Construct(objects) ==
    /\ pc \in {"idle", "done"}
    /\ again' = FALSE
    /\ self' \in objects
    /\ pc' = "idle"
    /\ x' = NoImage /\ features' = <<>> /\ patch_h' = 0 /\ patch_w' = 0
    /\ out' = <<>> /\ trace' = <<>>
    /\ Fresh
    /\ UNCHANGED saved

(* DPT_DINOv2.forward(x) up to the entry of depth_head *)
WrapperCall(images, at) ==
    /\ pc \in at
    /\ again' = (saved # NoSaved)
    /\ self.kind = "DPT_DINOv2"
    /\ \E img \in images :
        /\ x' = img
        /\ features' = GetIntermediateLayers(self, img)
        /\ patch_h' = PatchGrid(img.h)
        /\ patch_w' = PatchGrid(img.w)
    /\ out' = EmptyOut
    /\ trace' = <<"pretrained">>
    /\ Fresh
    /\ pc' = "loop"
    /\ UNCHANGED <<self, saved>>

(* DPTHead.forward(out_features, patch_h, patch_w) called directly *)
HeadCall(args, at) ==
    /\ pc \in at
    /\ again' = (saved # NoSaved)
    /\ self.kind = "DPTHead"
    /\ \E a \in args :
        /\ features' = a.features
        /\ patch_h' = a.patch_h
        /\ patch_w' = a.patch_w
    /\ x' = NoImage
    /\ out' = EmptyOut
    /\ trace' = <<>>
    /\ Fresh
    /\ pc' = "loop"
    /\ UNCHANGED <<self, saved>>

(* for i, x in enumerate(out_features): ... out.append(x) *)
HeadLoop ==
    /\ pc = "loop"
    /\ i < Len(features)
    /\ LET b == LoopBody(self, features[i + 1], i + 1, patch_h, patch_w)
       IN  /\ trace' = trace \o b.mods
           /\ IF b.err # ""
              THEN Fail(b.err) /\ UNCHANGED <<i, out>>
              ELSE /\ out' = Append(out, b.shape)
                   /\ i' = i + 1
                   /\ UNCHANGED <<pc, result>>
    /\ UNCHANGED <<self, Args, layer_rn, path_4, path_3, path_2, path_1, depth,
                   resized, saved, again>>

(* layer_1, layer_2, layer_3, layer_4 = out; layer_k_rn = scratch.layerk_rn(layer_k) *)
HeadUnpack ==
    /\ pc = "loop"
    /\ i = Len(features)
    /\ IF ~UnpackOk(out)
       THEN Fail("ValueError") /\ UNCHANGED <<layer_rn, trace>>
       ELSE LET rn == [j \in 1..4 |-> LayerRn(self, j, out[j])]
            IN  IF \E j \in 1..4 : rn[j] = NoShape
                THEN Fail("RuntimeError") /\ UNCHANGED <<layer_rn, trace>>
                ELSE /\ layer_rn' = rn
                     /\ trace' = trace \o <<"layer1_rn", "layer2_rn", "layer3_rn", "layer4_rn">>
                     /\ pc' = "refinenet4"
                     /\ UNCHANGED result
    /\ UNCHANGED <<self, Args, i, out, path_4, path_3, path_2, path_1, depth,
                   resized, saved, again>>

(* path_4 = scratch.refinenet4(layer_4_rn, size=layer_3_rn.shape[2:]) *)
Refinenet4 ==
    /\ pc = "refinenet4"
    /\ LET p == FeatureFusionBlock(<<layer_rn[4]>>, Refinenet4Size(layer_rn))
       IN  IF p = NoShape
           THEN Fail("RuntimeError") /\ UNCHANGED <<path_4, trace>>
           ELSE /\ path_4' = p
                /\ trace' = Append(trace, "refinenet4")
                /\ pc' = "refinenet3"
                /\ UNCHANGED result
    /\ UNCHANGED <<self, Args, i, out, layer_rn, path_3, path_2, path_1, depth,
                   resized, saved, again>>

(* path_3 = scratch.refinenet3(path_4, layer_3_rn, size=layer_2_rn.shape[2:]) *)
Refinenet3 ==
    /\ pc = "refinenet3"
    /\ LET p == FeatureFusionBlock(<<path_4, layer_rn[3]>>, Refinenet3Size(layer_rn))
       IN  IF p = NoShape
           THEN Fail("RuntimeError") /\ UNCHANGED <<path_3, trace>>
           ELSE /\ path_3' = p
                /\ trace' = Append(trace, "refinenet3")
                /\ pc' = "refinenet2"
                /\ UNCHANGED result
    /\ UNCHANGED <<self, Args, i, out, layer_rn, path_4, path_2, path_1, depth,
                   resized, saved, again>>

(* path_2 = scratch.refinenet2(path_3, layer_2_rn, size=layer_1_rn.shape[2:]) *)
Refinenet2 ==
    /\ pc = "refinenet2"
    /\ LET p == FeatureFusionBlock(<<path_3, layer_rn[2]>>, Refinenet2Size(layer_rn))
       IN  IF p = NoShape
           THEN Fail("RuntimeError") /\ UNCHANGED <<path_2, trace>>
           ELSE /\ path_2' = p
                /\ trace' = Append(trace, "refinenet2")
                /\ pc' = "refinenet1"
                /\ UNCHANGED result
    /\ UNCHANGED <<self, Args, i, out, layer_rn, path_4, path_3, path_1, depth,
                   resized, saved, again>>

(* path_1 = scratch.refinenet1(path_2, layer_1_rn) *)
Refinenet1 ==
    /\ pc = "refinenet1"
    /\ LET p == FeatureFusionBlock(<<path_2, layer_rn[1]>>, Refinenet1Size(layer_rn))
       IN  IF p = NoShape
           THEN Fail("RuntimeError") /\ UNCHANGED <<path_1, trace>>
           ELSE /\ path_1' = p
                /\ trace' = Append(trace, "refinenet1")
                /\ pc' = "output_conv1"
                /\ UNCHANGED result
    /\ UNCHANGED <<self, Args, i, out, layer_rn, path_4, path_3, path_2, depth,
                   resized, saved, again>>

(* out = self.scratch.output_conv1(path_1): the attribute exists only on a head
   built with nclass <= 1 *)
HeadOutputConv1 ==
    /\ pc = "output_conv1"
    /\ IF ~HasOutputConv1(self)
       THEN Fail("AttributeError") /\ UNCHANGED <<depth, trace>>
       ELSE LET a == OutputConv1(self, path_1)
            IN  IF a = NoShape
                THEN Fail("RuntimeError") /\ UNCHANGED <<depth, trace>>
                ELSE /\ depth' = [depth EXCEPT !.shape = a]
                     /\ trace' = Append(trace, "output_conv1")
                     /\ pc' = "interpolate"
                     /\ UNCHANGED result
    /\ UNCHANGED <<self, Args, i, out, layer_rn, path_4, path_3, path_2, path_1,
                   resized, saved, again>>

(* out = F.interpolate(out, (int(patch_h * 14), int(patch_w * 14)), ...) *)
HeadUpsample ==
    /\ pc = "interpolate"
    /\ depth' = [depth EXCEPT !.shape = HeadInterpolate(depth.shape, patch_h, patch_w)]
    /\ trace' = Append(trace, "head_interpolate")
    /\ pc' = "output_conv2"
    /\ UNCHANGED <<self, Args, i, out, layer_rn, path_4, path_3, path_2, path_1,
                   resized, result, saved, again>>

(* out = self.scratch.output_conv2(out); return out *)
HeadOutputConv2 ==
    /\ pc = "output_conv2"
    /\ LET a == OutputConv2(self, depth.shape)
           v == HeadValues(self, features)
       IN  IF a = NoShape
           THEN Fail("RuntimeError") /\ UNCHANGED <<depth, trace>>
           ELSE /\ depth' = [shape |-> a, num |-> v.num, den |-> v.den]
                /\ trace' = trace \o <<"output_conv2",
                                       IF self.metric_depth THEN "sigmoid" ELSE "relu">>
                /\ IF self.kind = "DPTHead"
                   THEN /\ pc' = "done"
                        /\ result' = [ok |-> TRUE, err |-> "",
                                      dims |-> <<a.n, a.c, a.h, a.w>>,
                                      num |-> v.num, den |-> v.den]
                   ELSE pc' = "resize" /\ UNCHANGED result
    /\ UNCHANGED <<self, Args, i, out, layer_rn, path_4, path_3, path_2, path_1,
                   resized, saved, again>>

(* if h != depth.shape[2] or w != depth.shape[3]: depth = F.interpolate(depth,
   size=(h, w), mode="bilinear", align_corners=True) *)
WrapperResize ==
    /\ pc = "resize"
    /\ IF NeedsResize(x.h, x.w, depth.shape)
       THEN LET v == Bilinear(depth, depth.shape.w, x.w)
            IN  /\ depth' = [shape |-> Interpolate(depth.shape, x.h, x.w),
                             num |-> v.num, den |-> v.den]
                /\ resized' = TRUE
                /\ trace' = Append(trace, "interpolate")
       ELSE UNCHANGED <<depth, resized, trace>>
    /\ pc' = "post"
    /\ UNCHANGED <<self, Args, i, out, layer_rn, path_4, path_3, path_2, path_1,
                   result, saved, again>>

(* if self.metric_depth: depth = depth * self.max_depth
   else: depth = F.relu(depth) *)
WrapperPost ==
    /\ pc = "post"
    /\ IF self.metric_depth
       THEN /\ depth' = [depth EXCEPT !.num =
                            <<ScaleByMaxDepth(depth.num[1], self.max_depth),
                              ScaleByMaxDepth(depth.num[2], self.max_depth)>>]
            /\ trace' = Append(trace, "mul_max_depth")
       ELSE /\ depth' = [depth EXCEPT !.num = <<Relu(depth.num[1]), Relu(depth.num[2])>>]
            /\ trace' = Append(trace, "F.relu")
    /\ pc' = "squeeze"
    /\ UNCHANGED <<self, Args, i, out, layer_rn, path_4, path_3, path_2, path_1,
                   resized, result, saved, again>>

(* return depth.squeeze(1) *)
WrapperReturn ==
    /\ pc = "squeeze"
    /\ result' = [ok |-> TRUE, err |-> "", dims |-> Squeeze1(depth.shape),
                  num |-> depth.num, den |-> depth.den]
    /\ pc' = "done"
    /\ UNCHANGED <<self, Args, Locals, trace, saved, again>>

(* the caller keeps a finished call's arguments and result for later comparison *)
Keep ==
    /\ pc = "done"
    /\ saved # Call
    /\ saved' = Call
    /\ UNCHANGED <<self, pc, Args, Locals, trace, result, again>>

Forward ==
    \/ HeadLoop \/ HeadUnpack
    \/ Refinenet4 \/ Refinenet3 \/ Refinenet2 \/ Refinenet1
    \/ HeadOutputConv1 \/ HeadUpsample \/ HeadOutputConv2
    \/ WrapperResize \/ WrapperPost \/ WrapperReturn

Reset ==
    /\ pc = "idle"
    /\ x = NoImage /\ features = <<>> /\ patch_h = 0 /\ patch_w = 0
    /\ i = 0 /\ out = <<>> /\ layer_rn = <<>>
    /\ path_4 = NoShape /\ path_3 = NoShape /\ path_2 = NoShape /\ path_1 = NoShape
    /\ depth = NoDepth /\ resized = FALSE /\ trace = <<>>
    /\ result = NoResult
    /\ saved = NoSaved
    /\ again = FALSE

(* every object of the bounded configuration space, one forward pass each *)
Init == self \in Wrappers \cup Heads /\ Reset

Next ==
    \/ Construct(Wrappers \cup Heads)
    \/ WrapperCall(Images, {"idle"})
    \/ HeadCall(HeadArgs(self), {"idle"})
    \/ Forward

Spec == Init /\ [][Next]_vars

(* repeated forward passes on one object and on objects that differ in one
   setting, over fewer objects and arguments; the caller keeps one finished
   call to compare later ones with *)
PairWrappers ==
    {Module("DPT_DINOv2", "vits", 1, cls, m, d, 1) :
        cls \in BOOLEAN, m \in BOOLEAN, d \in MaxDepths}

PairHeads == {Module("DPTHead", "vits", nc, cls, FALSE, 1, 1) : nc \in {1, 2}, cls \in BOOLEAN}

PairImages == [n : {1}, c : {3}, h : {PatchSize}, w : {PatchSize, PatchSize + 5},
               pix : {<<-1, 1>>, <<0, 1>>}]

PairHeadArgs(s) ==
    {[features |-> FeatureList(len, 0, 1, p, p, s.in_channels, <<0, 1>>),
      patch_h |-> p, patch_w |-> p] : len \in {3, 4}, p \in {1, 2}}

InitPair == self \in PairWrappers \cup PairHeads /\ Reset

NextPair ==
    \/ Construct(PairWrappers \cup PairHeads)
    \/ WrapperCall(PairImages, {"idle", "done"})
    \/ HeadCall(PairHeadArgs(self), {"idle", "done"})
    \/ Forward
    \/ Keep

SpecPair == InitPair /\ [][NextPair]_vars

----------------------------------------------------------------------------
(* Properties *)

InTrace(name) == \E j \in 1..Len(trace) : trace[j] = name

Count(name) == Cardinality({j \in 1..Len(trace) : trace[j] = name})

WrapperDone == pc = "done" /\ self.kind = "DPT_DINOv2"

HeadDone == pc = "done" /\ self.kind = "DPTHead"

(* the feature list has exactly 4 entries, each with patch_h * patch_w tokens *)
WellFormed ==
    /\ Len(features) = 4
    /\ \A j \in 1..Len(features) : features[j].tokens = patch_h * patch_w

Multiple14(len) == len % PatchSize = 0

(* C1: for every batch and every H, W that are positive multiples of 14,
   DPT_DINOv2.forward returns a tensor of shape exactly (batch, H, W), in
   metric and in relative mode, for odd and even patch grids. *)
C1_OutputShape ==
    (WrapperDone /\ Multiple14(x.h) /\ Multiple14(x.w))
        => (result.ok /\ result.dims = <<x.n, x.h, x.w>>)

C1_Witness ==
    /\ WrapperDone /\ result.ok
    /\ x.n = 1 /\ x.h = 3 * PatchSize /\ x.w = 2 * PatchSize
    /\ self.metric_depth
    /\ result.dims = <<1, 3 * PatchSize, 2 * PatchSize>>

(* C2: a DPTHead built with nclass > 1, given a well-formed feature list,
   returns a tensor with nclass channels at path_1's spatial size, produced by
   the flat output_conv stack and without the output_conv1 / upsample /
   output_conv2 head. *)
C2_SegmentationHead ==
    (HeadDone /\ self.nclass > 1 /\ WellFormed)
        => /\ result.ok
           /\ result.dims = <<features[1].n, self.nclass, path_1.h, path_1.w>>
           /\ ~InTrace("output_conv1") /\ ~InTrace("head_interpolate")
           /\ ~InTrace("output_conv2")

(* C3: every value DPT_DINOv2.forward returns lies in [0, max_depth] in metric
   mode and is >= 0 in relative mode; metric mode ends sigmoid ... multiply by
   max_depth, relative mode ends ReLU ... (optional resize) ... ReLU. *)
C3_ValueRange ==
    (WrapperDone /\ result.ok)
        => /\ \A k \in 1..2 :
                /\ result.num[k] >= 0
                /\ self.metric_depth => result.num[k] <= self.max_depth * result.den
           /\ trace[Len(trace)] = (IF self.metric_depth THEN "mul_max_depth" ELSE "F.relu")
           /\ InTrace(IF self.metric_depth THEN "sigmoid" ELSE "relu")
           /\ ~InTrace(IF self.metric_depth THEN "relu" ELSE "sigmoid")
           /\ resized => trace[Len(trace) - 1] = "interpolate"

C3_Witness ==
    /\ WrapperDone /\ result.ok /\ self.metric_depth /\ resized
    /\ self.max_depth = 2
    /\ result.num[1] = 0
    /\ result.num[2] > 0 /\ result.num[2] < self.max_depth * result.den

(* the objects of two calls differ in max_depth at most *)
SameButMaxDepth(s, t) == [s EXCEPT !.max_depth = t.max_depth] = t

(* C4: in metric mode, with weights, input and all other configuration fixed,
   the output is linear in max_depth: the outputs of two models are in the
   ratio of their max_depth values. *)
C4_LinearInMaxDepth ==
    (/\ WrapperDone /\ result.ok /\ self.metric_depth
     /\ saved.self.kind = "DPT_DINOv2" /\ saved.result.ok
     /\ SameButMaxDepth(saved.self, self) /\ saved.x = x)
        => /\ result.dims = saved.result.dims
           /\ result.den = saved.result.den
           /\ \A k \in 1..2 :
                result.num[k] * saved.self.max_depth = saved.result.num[k] * self.max_depth

C4_Witness ==
    /\ WrapperDone /\ result.ok /\ self.metric_depth /\ again
    /\ saved.self.kind = "DPT_DINOv2" /\ saved.result.ok
    /\ SameButMaxDepth(saved.self, self) /\ saved.x = x
    /\ saved.self.max_depth = 1 /\ self.max_depth = 2
    /\ saved.result.num[2] > 0
    /\ result.num[2] = 2 * saved.result.num[2]

(* C5: with fixed weights and a fixed input, any two forward invocations, with
   any invocations in between, return identical output. *)
C5_Deterministic ==
    (/\ pc = "done"
     /\ saved.self = self /\ saved.x = x /\ saved.features = features
     /\ saved.patch_h = patch_h /\ saved.patch_w = patch_w)
        => saved.result = result

C5_Witness ==
    /\ WrapperDone /\ result.ok /\ again
    /\ saved.self = self /\ saved.x = x
    /\ saved.result = result
    /\ result.num[2] > 0

(* the objects of two calls differ in use_clstoken at most *)
SameButClsToken(s, t) == [s EXCEPT !.use_clstoken = t.use_clstoken] = t

(* C6: for the same input geometry the head's output shape is the same with
   use_clstoken on and off; with the toggle on every entry goes through its
   readout projection, with it off no readout projection is used. *)
C6_ClsTokenShape ==
    /\ (/\ pc = "done" /\ saved.self.kind = self.kind
        /\ SameButClsToken(saved.self, self)
        /\ saved.x = x /\ saved.features = features
        /\ saved.patch_h = patch_h /\ saved.patch_w = patch_w)
            => (result.ok = saved.result.ok /\ result.dims = saved.result.dims)
    /\ (pc = "done" /\ ~self.use_clstoken) => Count("readout_projects") = 0
    /\ (pc = "done" /\ self.use_clstoken /\ result.ok)
            => Count("readout_projects") = Count("projects")

C6_Witness ==
    /\ HeadDone /\ result.ok /\ again /\ self.use_clstoken
    /\ ~saved.self.use_clstoken /\ SameButClsToken(saved.self, self)
    /\ saved.features = features /\ saved.patch_h = patch_h /\ saved.patch_w = patch_w
    /\ saved.result.ok /\ result.dims = saved.result.dims
    /\ Count("readout_projects") = 4

(* the loop over the feature list has appended all four resampled maps *)
Resampled == pc # "loop" /\ Len(out) = 4

(* C7 as stated: for every patch grid the four resampled maps form a strict
   power-of-2 hierarchy: in each dimension layer i is exactly 2 times layer
   i + 1, for i = 0, 1, 2. *)
C7_StrictHierarchy ==
    Resampled =>
        \A j \in 1..3 : out[j].h = 2 * out[j + 1].h /\ out[j].w = 2 * out[j + 1].w

CeilHalf(n) == (n + 1) \div 2

(* C7 as amended: the resampled maps have sizes 4p, 2p, p and ceil(p / 2) in
   each dimension (p the patch-grid size): layer i is exactly 2 times layer
   i + 1 for i = 0, 1, and for i = 2 exactly when p is even. *)
C7_Hierarchy ==
    Resampled =>
        /\ Size(out[1]) = <<4 * patch_h, 4 * patch_w>>
        /\ Size(out[2]) = <<2 * patch_h, 2 * patch_w>>
        /\ Size(out[3]) = <<patch_h, patch_w>>
        /\ Size(out[4]) = <<CeilHalf(patch_h), CeilHalf(patch_w)>>
        /\ (out[3].h = 2 * out[4].h) <=> (patch_h % 2 = 0)
        /\ (out[3].w = 2 * out[4].w) <=> (patch_w % 2 = 0)

C7_Witness ==
    /\ Resampled /\ patch_h = 3 /\ patch_w = 2
    /\ Size(out[3]) = <<3, 2>> /\ Size(out[4]) = <<2, 1>>

RefineTrace == SelectSeq(trace, LAMBDA m : m \in {"refinenet1", "refinenet2", "refinenet3", "refinenet4"})

RefineOrder == <<"refinenet4", "refinenet3", "refinenet2", "refinenet1">>

(* C8: the fusion stages run in the order refinenet4, 3, 2, 1; path_4 has
   layer_3_rn's size, path_3 layer_2_rn's, path_2 layer_1_rn's, so at each
   two-input stage accumulator and lateral map have the same spatial size, for
   odd patch grids too. *)
C8_FusionSizes ==
    /\ RefineTrace = SubSeq(RefineOrder, 1, Len(RefineTrace))
    /\ InTrace("refinenet4") => SameSize(path_4, layer_rn[3])
    /\ InTrace("refinenet3") => SameSize(path_3, layer_rn[2])
    /\ InTrace("refinenet2") => SameSize(path_2, layer_rn[1])
    /\ pc = "refinenet3" => (InTrace("refinenet4") /\ SameSize(path_4, layer_rn[3]))
    /\ pc = "refinenet2" => (InTrace("refinenet3") /\ SameSize(path_3, layer_rn[2]))
    /\ pc = "refinenet1" => (InTrace("refinenet2") /\ SameSize(path_2, layer_rn[1]))

C8_Witness ==
    /\ pc = "refinenet3" /\ patch_h = 3 /\ patch_w = 1
    /\ Size(layer_rn[4]) = <<2, 1>>
    /\ Size(path_4) = <<3, 1>>

(* C9: the wrapper's bilinear resize runs if and only if the head's output
   size differs from (H, W); after that step the depth map is exactly (H, W);
   for H and W multiples of 14 it never runs, the head returning
   (14 * (H div 14), 14 * (W div 14)) = (H, W). *)
C9_ConditionalResize ==
    /\ (self.kind = "DPT_DINOv2" /\ pc = "resize")
            => Size(depth.shape) = <<PatchSize * PatchGrid(x.h), PatchSize * PatchGrid(x.w)>>
    /\ (self.kind = "DPT_DINOv2" /\ (pc \in {"post", "squeeze"} \/ (pc = "done" /\ result.ok)))
            => /\ Size(depth.shape) = <<x.h, x.w>>
               /\ resized <=> (<<x.h, x.w>> # <<PatchSize * patch_h, PatchSize * patch_w>>)
               /\ resized <=> InTrace("interpolate")
               /\ (Multiple14(x.h) /\ Multiple14(x.w)) => ~resized

C9_Witness ==
    /\ WrapperDone /\ result.ok /\ resized
    /\ Multiple14(x.h) /\ ~Multiple14(x.w)
    /\ Size(depth.shape) = <<x.h, x.w>>

(* C10: DPTHead.forward raises, and returns nothing, whenever the feature list
   does not have exactly 4 entries or an entry's token count differs from
   patch_h * patch_w; the exception is the runtime's own (the unpack's
   ValueError, the module list's IndexError or the reshape's RuntimeError). *)
C10_FailsLoudly ==
    (pc = "done" /\ ~WellFormed)
        => /\ ~result.ok
           /\ result.dims = <<>>
           /\ result.err \in {"ValueError", "IndexError", "RuntimeError"}
           /\ (Len(features) < 4 /\ \A j \in 1..Len(features) : features[j].tokens = patch_h * patch_w)
                => result.err = "ValueError"
           /\ (\E j \in 1..Min(4, Len(features)) : features[j].tokens # patch_h * patch_w)
                => result.err = "RuntimeError"

C10_Witness ==
    /\ HeadDone /\ Len(features) = 5 /\ self.nclass = 1
    /\ \A j \in 1..5 : features[j].tokens = patch_h * patch_w
    /\ result.err = "IndexError"
    /\ Len(out) = 4

====
